---- MODULE Spec2Model ----
(***************************************************************************)
(* Antfarm step-operations engine: the run / step / story state machine    *)
(* driven by claimStep, completeStep, failStep and cancelRun, with the     *)
(* verify-each sub-protocol of the story loop.                             *)
(***************************************************************************)
EXTENDS Integers, Sequences, FiniteSets, TLC

\* ------------------------------------------------------------------ bounds
\* Total story rows a run may accumulate (STORIES_JSON insertions are only
\* offered while the run stays within it).
MaxStories == 2
\* Length of a run's step_results list up to which appending calls are offered.
MaxResults == 2
\* Calls of ensureOrchestratorCron, and jobs other clients add to the gateway.
MaxCalls == 3
MaxOtherJobs == 2

\* --------------------------------------------------------- program constants
\* stories.max_retries column default, and a step's max_retries default.
DefaultMaxRetries == 2
\* "Max 20 stories (reject if more)".
MaxStoriesJson == 20

NULL == 0
NoVal == "none"

Agents == {"planner", "developer", "verifier"}

\* ------------------------------------------------------------ workflow specs
StepDef(id, agent, type, ve, vs, mr, rs, esc) ==
    [id |-> id, agent |-> agent, type |-> type, verifyEach |-> ve,
     verifyStep |-> vs, maxRetries |-> mr, retryStep |-> rs, escalateTo |-> esc]

\* plan, implement (loop, verify_each, verify_step = verify), verify, ship
FeatureDev ==
    << StepDef("plan", "planner", "single", FALSE, NoVal, 1, NoVal, NoVal),
       StepDef("implement", "developer", "loop", TRUE, "verify", 1, NoVal, NoVal),
       StepDef("verify", "verifier", "single", FALSE, NoVal, 1, NoVal, NoVal),
       StepDef("ship", "developer", "single", FALSE, NoVal, 1, NoVal, "planner") >>

\* the same pipeline with on_fail.retry_step = plan on the loop step
FeatureDevRewind ==
    << StepDef("plan", "planner", "single", FALSE, NoVal, 1, NoVal, NoVal),
       StepDef("implement", "developer", "loop", TRUE, "verify", 1, "plan", NoVal),
       StepDef("verify", "verifier", "single", FALSE, NoVal, 1, NoVal, NoVal),
       StepDef("ship", "developer", "single", FALSE, NoVal, 1, NoVal, NoVal) >>

\* a loop without verify_each
PlainLoop ==
    << StepDef("plan", "planner", "single", FALSE, NoVal, DefaultMaxRetries, NoVal, NoVal),
       StepDef("implement", "developer", "loop", FALSE, NoVal, 1, NoVal, "planner"),
       StepDef("ship", "developer", "single", FALSE, NoVal, 1, "plan", NoVal) >>

\* A verify-each loop whose verify step is assigned to the loop step's agent.
SelfVerify ==
    << StepDef("plan", "planner", "single", FALSE, NoVal, 1, NoVal, NoVal),
       StepDef("implement", "developer", "loop", TRUE, "verify", 1, NoVal, NoVal),
       StepDef("verify", "developer", "single", FALSE, NoVal, 1, NoVal, NoVal) >>

Workflows == {FeatureDev, FeatureDevRewind, PlainLoop, SelfVerify}

\* wf, storyMax, runs, ret: the workflow engine; cronJobs: the jobs the cron
\* gateway holds; ensure: the calls of ensureOrchestratorCron.
VARIABLES wf, storyMax, runs, ret, cronJobs, ensure

vars == <<wf, storyMax, runs, ret, cronJobs, ensure>>

StepIdx == 1..Len(wf)

\* The runs that exist, numbered in creation order.
Runs == DOMAIN runs

IndexOf(id) == CHOOSE i \in StepIdx : wf[i].id = id

Min(S) == CHOOSE x \in S : \A y \in S : x <= y

\* ------------------------------------------------------------------- rows
NewStep(st) == [status |-> st, retryCount |-> 0, currentStoryId |-> NULL]

NewStory(label, mr, idx) ==
    [storyId |-> label, storyIndex |-> idx, status |-> "pending", output |-> NoVal,
     retryCount |-> 0, maxRetries |-> mr]

EmptyContext == [verify_feedback |-> NoVal, escalate_to |-> NoVal, changes |-> NoVal]

\* A run is created with every step waiting except the first, which is pending.
NewRun(w) ==
    [status |-> "running",
     steps |-> [i \in 1..Len(w) |-> NewStep(IF i = 1 THEN "pending" ELSE "waiting")],
     stories |-> << >>,
     doneOrder |-> << >>,
     context |-> EmptyContext,
     stepResults |-> << >>]

\* What the last call returned to its caller.
\* `stepResult` is the position in step_results of a returned StepResult.
Ret(op, agent, r, i, k, result, feedback) ==
    [op |-> op, agent |-> agent, run |-> r, step |-> i, story |-> k,
     result |-> result, feedback |-> feedback, stepResult |-> 0]

NoRet == Ret("none", NoVal, 0, 0, NULL, NoVal, NoVal)

\* No call of ensureOrchestratorCron is in progress and none has returned.
NoEnsure == [pc |-> "idle", adds |-> 0, returned |-> << >>]

Init ==
    /\ wf \in Workflows
    /\ storyMax \in 1..DefaultMaxRetries
    /\ runs = [r \in {1} |-> NewRun(wf)]
    /\ ret = NoRet
    /\ cronJobs = << >>
    /\ ensure = NoEnsure

\* Commit a transaction: the new rows and the value returned to the caller.
Commit(newRuns, ret0) ==
    /\ runs' = newRuns
    /\ ret' = ret0
    /\ UNCHANGED <<wf, storyMax, cronJobs, ensure>>

\* ------------------------------------------------------------- the engine
\* Variant: failed stories count as pending ones.
PendingOrFailedStories(run) ==
    {k \in 1..Len(run.stories) : run.stories[k].status \in {"pending", "failed"}}

PendingStories(run) ==
    {k \in 1..Len(run.stories) : run.stories[k].status = "pending"}

\* Variant: every waiting step after step i is set to pending.
advancePipelineAll(run, i) ==
    LET waiting == {j \in StepIdx : j > i /\ run.steps[j].status = "waiting"}
    IN  IF waiting = {}
        THEN [run EXCEPT !.status = "completed"]
        ELSE [run EXCEPT !.steps = [j \in StepIdx |->
                 IF j \in waiting THEN [run.steps[j] EXCEPT !.status = "pending"]
                 ELSE run.steps[j]]]

\* Set the next waiting step after step i to pending; with none left the run
\* is completed.
advancePipeline(run, i) ==
    LET waiting == {j \in StepIdx : j > i /\ run.steps[j].status = "waiting"}
    IN  IF waiting = {}
        THEN [run EXCEPT !.status = "completed"]
        ELSE [run EXCEPT !.steps[Min(waiting)].status = "pending"]

\* Variant: pending steps of the agent in any run, whatever its status.
ClaimCandidatesAnyRun(agent) ==
    {c \in Runs \X StepIdx :
        /\ runs[c[1]].steps[c[2]].status = "pending"
        /\ wf[c[2]].agent = agent}

\* Variant: steps of the agent that are still waiting are candidates too.
ClaimCandidatesWaiting(agent) ==
    {c \in Runs \X StepIdx :
        /\ runs[c[1]].status = "running"
        /\ runs[c[1]].steps[c[2]].status \in {"pending", "waiting"}
        /\ wf[c[2]].agent = agent}

\* Pending steps of the agent in runs that are running.
ClaimCandidates(agent) ==
    {c \in Runs \X StepIdx :
        /\ runs[c[1]].status = "running"
        /\ runs[c[1]].steps[c[2]].status = "pending"
        /\ wf[c[2]].agent = agent}

\* Lowest (createdAt, stepIndex): runs are numbered in creation order.
FirstCandidate(cands) ==
    CHOOSE c \in cands : \A d \in cands :
        c[1] < d[1] \/ (c[1] = d[1] /\ c[2] <= d[2])

Max(S) == CHOOSE x \in S : \A y \in S : y <= x

\* Variant: the pending story with the highest story_index is taken.
LastPendingStory(run) == Max(PendingStories(run))

\* The next story of the loop: the pending one with the lowest story_index.
NextPendingStory(run) == Min(PendingStories(run))

\* Variant: the story is claimed but the step row is left pending.
ClaimStoryKeepsPending(run, i, k) ==
    [run EXCEPT !.stories[k].status = "running",
                !.steps[i].currentStoryId = k]

\* The loop step's claim of story row k.
ClaimStory(run, i, k) ==
    [run EXCEPT !.stories[k].status = "running",
                !.steps[i].currentStoryId = k,
                !.steps[i].status = "running"]

\* Variant: the loop step is marked done but the pipeline is not advanced.
FinishLoopNoAdvance(run, i) == [run EXCEPT !.steps[i].status = "done"]

\* Variant: the pipeline is advanced but the loop step is not marked done.
FinishLoopKeepsPending(run, i) == advancePipeline(run, i)

\* A loop step claimed with no pending story left: mark it done and advance.
FinishLoop(run, i) == advancePipeline([run EXCEPT !.steps[i].status = "done"], i)

claimStep(agent) ==
    LET cands == ClaimCandidates(agent) IN
    IF cands = {}
    THEN Commit(runs, Ret("claim", agent, 0, 0, NULL, "none", NoVal))
    ELSE
      LET c == FirstCandidate(cands)
          r == c[1]
          i == c[2]
          run == runs[r]
      IN  IF wf[i].type = "loop"
          THEN IF PendingStories(run) = {}
               THEN Commit([runs EXCEPT ![r] = FinishLoop(run, i)],
                           Ret("claim", agent, 0, 0, NULL, "none", NoVal))
               ELSE LET k == NextPendingStory(run) IN
                    Commit([runs EXCEPT ![r] = ClaimStory(run, i, k)],
                           Ret("claim", agent, r, i, k, "found",
                               run.context.verify_feedback))
          ELSE Commit([runs EXCEPT ![r].steps[i].status = "running"],
                      Ret("claim", agent, r, i, NULL, "found",
                          run.context.verify_feedback))

\* ------------------------------------------------------------ agent output
\* An agent's output, as the lines the parser recognises: the STATUS line,
\* the ISSUES block, one KEY: VALUE line (CHANGES) and the STORIES_JSON block.
StatusLines == {"none", "done", "retry", "blocked"}

AbsentPayload == [kind |-> "absent", ids |-> << >>]
MalformedPayload == [kind |-> "malformed", ids |-> << >>]
ArrayPayload(ids) == [kind |-> "array", ids |-> ids]

\* Story ids a planner may use.
StoryLabels == <<"US-1", "US-2", "US-3", "US-4">>

\* Blocks an agent is taken to emit whatever the run holds: unparsable text,
\* the empty array, two stories, and a repeated id.
StoriesPayloads ==
    {MalformedPayload, ArrayPayload(<< >>),
     ArrayPayload(<<"US-1", "US-2">>), ArrayPayload(<<"US-1", "US-1">>)}

\* One more story, under the next id the run has not used.
FreshPayload(run) == ArrayPayload(<<StoryLabels[Len(run.stories) + 1]>>)

Output(status, issues, changes, stories) ==
    [status |-> status, issues |-> issues, changes |-> changes, stories |-> stories]

\* The outputs agents are taken to report: each STATUS line alone, a retry
\* and a done with an ISSUES block, and each STORIES_JSON block together with
\* a context write (a planner's output).
Outputs ==
    {Output(st, NoVal, NoVal, AbsentPayload) : st \in StatusLines}
        \cup {Output(st, "no tests", NoVal, AbsentPayload) : st \in {"retry", "done"}}
        \cup {Output("done", NoVal, "c1", p) : p \in StoriesPayloads}

\* The outputs offered to a step of the run: those, and a planner's output
\* adding one story under a fresh id.
OutputsOf(run) == Outputs \cup {Output("done", NoVal, "c1", FreshPayload(run))}

\* STATUS: absent is treated as done.
ParseStatus(out) == IF out.status = "none" THEN "done" ELSE out.status

\* Variant: the ISSUES block is never harvested.
ParseIssuesDropped(out) == NoVal

\* ISSUES is harvested only when STATUS is retry.
ParseIssues(out) == IF ParseStatus(out) = "retry" THEN out.issues ELSE NoVal

\* Validation of a STORIES_JSON array: parses, at most 20 entries, story ids
\* unique within the run.
StoriesValid(run, payload) ==
    /\ payload.kind = "array"
    /\ Len(payload.ids) <= MaxStoriesJson
    /\ \A a, b \in 1..Len(payload.ids) : a # b => payload.ids[a] # payload.ids[b]
    /\ \A a \in 1..Len(payload.ids), k \in 1..Len(run.stories) :
           payload.ids[a] # run.stories[k].storyId

HasStoriesJson(out) == out.stories.kind # "absent"

\* --------------------------------------------------------------- step rows
\* Variant: a new StepResult is put in front of the list.
AppendResultInFront(run, i, status, output) ==
    [run EXCEPT !.stepResults =
        <<[stepId |-> wf[i].id, agentId |-> wf[i].agent,
           status |-> status, output |-> output]>> \o @]

AppendResult(run, i, status, output) ==
    [run EXCEPT !.stepResults =
        Append(@, [stepId |-> wf[i].id, agentId |-> wf[i].agent,
                   status |-> status, output |-> output])]

MergeContext(run, out) ==
    IF out.changes = NoVal THEN run ELSE [run EXCEPT !.context.changes = out.changes]

\* Variant: story_index is the position in the inserted array, whatever rows
\* the run already has.
InsertStoriesFromZero(run, payload) ==
    [run EXCEPT !.stories =
        @ \o [n \in 1..Len(payload.ids) |-> NewStory(payload.ids[n], storyMax, n - 1)]]

\* Rows appended in array order; story_index is sequential within the run,
\* counted from 0.
InsertStories(run, payload) ==
    [run EXCEPT !.stories =
        @ \o [n \in 1..Len(payload.ids) |->
                 NewStory(payload.ids[n], storyMax, Len(run.stories) + n - 1)]]

Remove(seq, x) == SelectSeq(seq, LAMBDA y : y # x)

MarkStoryDone(run, k, output) ==
    [run EXCEPT !.stories[k].status = "done",
                !.stories[k].output = output,
                !.doneOrder = Append(Remove(@, k), k)]

\* The story most recently marked done that is still done (NULL if none).
LastDoneStory(run) ==
    LET done == {n \in 1..Len(run.doneOrder) :
                    run.stories[run.doneOrder[n]].status = "done"}
    IN  IF done = {} THEN NULL
        ELSE run.doneOrder[CHOOSE n \in done : \A m \in done : m <= n]

\* Variant: only the named step is touched; the failed step and the steps in
\* between keep their status.
applyOnFailNamedOnly(run, i) ==
    IF wf[i].retryStep # NoVal
    THEN [run EXCEPT !.steps[IndexOf(wf[i].retryStep)].status = "pending",
                     !.steps[i].retryCount = 0]
    ELSE IF wf[i].escalateTo # NoVal
    THEN [run EXCEPT !.status = "blocked", !.context.escalate_to = wf[i].escalateTo]
    ELSE [run EXCEPT !.status = "blocked"]

\* on_fail of step i, applied when its retries are exhausted.
applyOnFail(run, i) ==
    IF wf[i].retryStep # NoVal
    THEN LET t == IndexOf(wf[i].retryStep)
             lo == IF t < i THEN t ELSE i
             hi == IF t < i THEN i ELSE t
         IN  [run EXCEPT !.steps = [j \in StepIdx |->
                 IF j = t THEN [run.steps[j] EXCEPT !.status = "pending",
                                   !.retryCount = IF j = i THEN 0 ELSE @]
                 ELSE IF j = i THEN [run.steps[j] EXCEPT !.status = "waiting",
                                                         !.retryCount = 0]
                 ELSE IF j \in lo..hi THEN [run.steps[j] EXCEPT !.status = "waiting"]
                 ELSE run.steps[j]]]
    ELSE IF wf[i].escalateTo # NoVal
    THEN [run EXCEPT !.status = "blocked", !.context.escalate_to = wf[i].escalateTo]
    ELSE [run EXCEPT !.status = "blocked"]

\* The step is failed for good: mark it and apply on_fail.
ExhaustStep(run, i) ==
    applyOnFail([run EXCEPT !.steps[i].status = "failed"], i)

\* ---------------------------------------------------------- completeStep
\* The running loop step whose verify_step is step i (0 if none).
TriggeringLoop(run, i) ==
    LET loops == {j \in StepIdx : /\ wf[j].type = "loop"
                                   /\ run.steps[j].status = "running"
                                   /\ wf[j].verifyStep = wf[i].id}
    IN  IF loops = {} THEN 0 ELSE Min(loops)

CompleteSingle(run, i, out) ==
    advancePipeline(
        [AppendResult(run, i, ParseStatus(out), "out") EXCEPT !.steps[i].status = "done"], i)

\* Variant: current_story_id is not cleared when the story is completed.
CompleteLoopKeepsStory(run, i, out) ==
    LET k == run.steps[i].currentStoryId
        r2 == IF k = NULL THEN run ELSE MarkStoryDone(run, k, "out")
    IN  IF wf[i].verifyEach
        THEN [r2 EXCEPT !.steps[IndexOf(wf[i].verifyStep)].status = "pending"]
        ELSE IF PendingStories(r2) # {}
        THEN [r2 EXCEPT !.steps[i].status = "pending"]
        ELSE advancePipeline([r2 EXCEPT !.steps[i].status = "done"], i)

\* Variant: with verify_each the loop step is released to pending at once
\* instead of being held in running.
CompleteLoopNoHold(run, i, out) ==
    LET k == run.steps[i].currentStoryId
        r1 == IF k = NULL THEN run ELSE MarkStoryDone(run, k, "out")
        r2 == [r1 EXCEPT !.steps[i].currentStoryId = NULL]
    IN  IF wf[i].verifyEach
        THEN [r2 EXCEPT !.steps[IndexOf(wf[i].verifyStep)].status = "pending",
                        !.steps[i].status = IF PendingStories(r2) # {} THEN "pending" ELSE @]
        ELSE IF PendingStories(r2) # {}
        THEN [r2 EXCEPT !.steps[i].status = "pending"]
        ELSE advancePipeline([r2 EXCEPT !.steps[i].status = "done"], i)

\* Variant: without verify_each the loop step is marked done after its first
\* completed story, whatever stories are still pending.
CompleteLoopDoneAtOnce(run, i, out) ==
    LET k == run.steps[i].currentStoryId
        r1 == IF k = NULL THEN run ELSE MarkStoryDone(run, k, "out")
        r2 == [r1 EXCEPT !.steps[i].currentStoryId = NULL]
    IN  IF wf[i].verifyEach
        THEN [r2 EXCEPT !.steps[IndexOf(wf[i].verifyStep)].status = "pending"]
        ELSE advancePipeline([r2 EXCEPT !.steps[i].status = "done"], i)

CompleteLoop(run, i, out) ==
    LET k == run.steps[i].currentStoryId
        r1 == IF k = NULL THEN run ELSE MarkStoryDone(run, k, "out")
        r2 == [r1 EXCEPT !.steps[i].currentStoryId = NULL]
    IN  IF wf[i].verifyEach
        THEN [r2 EXCEPT !.steps[IndexOf(wf[i].verifyStep)].status = "pending"]
        ELSE IF PendingStories(r2) # {}
        THEN [r2 EXCEPT !.steps[i].status = "pending"]
        ELSE advancePipeline([r2 EXCEPT !.steps[i].status = "done"], i)

\* Variant: an exhausted story is failed but the loop step is handed back to
\* the developer instead of being failed.
VerifyRetryKeepsLoop(run, i, j, out) ==
    LET k == LastDoneStory(run)
        r1 == [run EXCEPT !.steps[i].status = "waiting"]
    IN  IF k = NULL
        THEN [r1 EXCEPT !.steps[j].status = "pending"]
        ELSE LET n == run.stories[k].retryCount + 1 IN
             IF n >= run.stories[k].maxRetries
             THEN [r1 EXCEPT !.stories[k].retryCount = n,
                             !.stories[k].status = "failed",
                             !.steps[j].status = "pending"]
             ELSE [r1 EXCEPT !.stories[k].retryCount = n,
                             !.stories[k].status = "pending",
                             !.context.verify_feedback = ParseIssues(out),
                             !.steps[j].status = "pending"]

\* Variant: the story is failed only once retry_count exceeds max_retries.
VerifyRetryOffByOne(run, i, j, out) ==
    LET k == LastDoneStory(run)
        r1 == [run EXCEPT !.steps[i].status = "waiting"]
    IN  IF k = NULL
        THEN [r1 EXCEPT !.steps[j].status = "pending"]
        ELSE LET n == run.stories[k].retryCount + 1 IN
             IF n > run.stories[k].maxRetries
             THEN ExhaustStep([r1 EXCEPT !.stories[k].retryCount = n,
                                         !.stories[k].status = "failed"], j)
             ELSE [r1 EXCEPT !.stories[k].retryCount = n,
                             !.stories[k].status = "pending",
                             !.context.verify_feedback = ParseIssues(out),
                             !.steps[j].status = "pending"]

VerifyRetry(run, i, j, out) ==
    LET k == LastDoneStory(run)
        r1 == [run EXCEPT !.steps[i].status = "waiting"]
    IN  IF k = NULL
        THEN [r1 EXCEPT !.steps[j].status = "pending"]
        ELSE LET n == run.stories[k].retryCount + 1 IN
             IF n >= run.stories[k].maxRetries
             THEN ExhaustStep([r1 EXCEPT !.stories[k].retryCount = n,
                                         !.stories[k].status = "failed"], j)
             ELSE [r1 EXCEPT !.stories[k].retryCount = n,
                             !.stories[k].status = "pending",
                             !.context.verify_feedback = ParseIssues(out),
                             !.steps[j].status = "pending"]

\* Variant: when the last story is verified only the loop step is marked done
\* and the pipeline is advanced past the loop step, not past the verify step.
CompleteVerifyForgetsVerify(run, i, j, out) ==
    CASE ParseStatus(out) = "done" ->
            LET r1 == [run EXCEPT !.context.verify_feedback = NoVal] IN
            IF PendingStories(r1) # {}
            THEN [r1 EXCEPT !.steps[j].status = "pending", !.steps[i].status = "waiting"]
            ELSE advancePipeline([r1 EXCEPT !.steps[j].status = "done",
                                            !.steps[i].status = "waiting"], j)
      [] ParseStatus(out) = "retry" -> VerifyRetry(run, i, j, out)
      [] OTHER -> [run EXCEPT !.status = "blocked"]

\* Variant: verify_feedback is left in the context when the verifier reports
\* STATUS done.
CompleteVerifyKeepsFeedback(run, i, j, out) ==
    CASE ParseStatus(out) = "done" ->
            IF PendingStories(run) # {}
            THEN [run EXCEPT !.steps[j].status = "pending", !.steps[i].status = "waiting"]
            ELSE advancePipeline([run EXCEPT !.steps[j].status = "done",
                                             !.steps[i].status = "done"], i)
      [] ParseStatus(out) = "retry" -> VerifyRetry(run, i, j, out)
      [] OTHER -> [run EXCEPT !.status = "blocked"]

\* Variant: on STATUS done with stories left the verify step is not put back
\* to waiting.
CompleteVerifyKeepsVerify(run, i, j, out) ==
    CASE ParseStatus(out) = "done" ->
            LET r1 == [run EXCEPT !.context.verify_feedback = NoVal] IN
            IF PendingStories(r1) # {}
            THEN [r1 EXCEPT !.steps[j].status = "pending"]
            ELSE advancePipeline([r1 EXCEPT !.steps[j].status = "done",
                                            !.steps[i].status = "done"], i)
      [] ParseStatus(out) = "retry" -> VerifyRetry(run, i, j, out)
      [] OTHER -> [run EXCEPT !.status = "blocked"]

CompleteVerify(run, i, j, out) ==
    CASE ParseStatus(out) = "done" ->
            LET r1 == [run EXCEPT !.context.verify_feedback = NoVal] IN
            IF PendingStories(r1) # {}
            THEN [r1 EXCEPT !.steps[j].status = "pending", !.steps[i].status = "waiting"]
            ELSE advancePipeline([r1 EXCEPT !.steps[j].status = "done",
                                            !.steps[i].status = "done"], i)
      [] ParseStatus(out) = "retry" -> VerifyRetry(run, i, j, out)
      [] OTHER -> [run EXCEPT !.status = "blocked"]

\* Variant: an exhausted single step is marked failed and nothing more: the
\* run is left as it is.
FailRunningLeavesRun(run, i, error) ==
    LET r1 == AppendResult(run, i, "retry", error)
        k == run.steps[i].currentStoryId
    IN  IF wf[i].type = "loop" /\ k = NULL
        THEN r1
        ELSE IF wf[i].type = "loop"
        THEN LET n == r1.stories[k].retryCount + 1 IN
             IF n >= r1.stories[k].maxRetries
             THEN ExhaustStep([r1 EXCEPT !.stories[k].retryCount = n,
                                         !.stories[k].status = "failed"], i)
             ELSE [r1 EXCEPT !.stories[k].retryCount = n,
                             !.stories[k].status = "pending",
                             !.steps[i].status = "pending"]
        ELSE LET n == r1.steps[i].retryCount + 1 IN
             IF n >= wf[i].maxRetries
             THEN [r1 EXCEPT !.steps[i].retryCount = n, !.steps[i].status = "failed"]
             ELSE [r1 EXCEPT !.steps[i].retryCount = n, !.steps[i].status = "pending"]

\* Variant: a failed single step goes back to pending without being charged a
\* retry.
FailRunningForgetsCount(run, i, error) ==
    LET r1 == AppendResult(run, i, "retry", error)
        k == run.steps[i].currentStoryId
    IN  IF wf[i].type = "loop" /\ k = NULL
        THEN r1
        ELSE IF wf[i].type = "loop"
        THEN LET n == r1.stories[k].retryCount + 1 IN
             IF n >= r1.stories[k].maxRetries
             THEN ExhaustStep([r1 EXCEPT !.stories[k].retryCount = n,
                                         !.stories[k].status = "failed"], i)
             ELSE [r1 EXCEPT !.stories[k].retryCount = n,
                             !.stories[k].status = "pending",
                             !.steps[i].status = "pending"]
        ELSE [r1 EXCEPT !.steps[i].status = "pending"]

\* Variant: a failure of a loop step's story is charged to the step, as for a
\* single step; the story goes back to pending.
FailRunningChargesStep(run, i, error) ==
    LET r1 == AppendResult(run, i, "retry", error)
        k == run.steps[i].currentStoryId
        n == r1.steps[i].retryCount + 1
        r2 == IF wf[i].type = "loop" /\ k # NULL
              THEN [r1 EXCEPT !.stories[k].status = "pending"] ELSE r1
    IN  IF wf[i].type = "loop" /\ k = NULL
        THEN r1
        ELSE IF n >= wf[i].maxRetries
        THEN ExhaustStep([r2 EXCEPT !.steps[i].retryCount = n], i)
        ELSE [r2 EXCEPT !.steps[i].retryCount = n, !.steps[i].status = "pending"]

\* The effect of failStep on a running step of a live run: the failure is
\* recorded, then charged to the current story of a loop step or to the step.
FailRunning(run, i, error) ==
    LET r1 == AppendResult(run, i, "retry", error)
        k == run.steps[i].currentStoryId
    IN  IF wf[i].type = "loop" /\ k = NULL
        THEN r1
        ELSE IF wf[i].type = "loop"
        THEN LET n == r1.stories[k].retryCount + 1 IN
             IF n >= r1.stories[k].maxRetries
             THEN ExhaustStep([r1 EXCEPT !.stories[k].retryCount = n,
                                         !.stories[k].status = "failed"], i)
             ELSE [r1 EXCEPT !.stories[k].retryCount = n,
                             !.stories[k].status = "pending",
                             !.steps[i].status = "pending"]
        ELSE LET n == r1.steps[i].retryCount + 1 IN
             IF n >= wf[i].maxRetries
             THEN ExhaustStep([r1 EXCEPT !.steps[i].retryCount = n], i)
             ELSE [r1 EXCEPT !.steps[i].retryCount = n, !.steps[i].status = "pending"]

\* Variant: a STORIES_JSON block that does not validate is skipped and the
\* step completes as if the block were absent.
CompleteRunningSkipsInvalid(run, i, out) ==
    LET r1 == MergeContext(run, out)
        r2 == IF HasStoriesJson(out) /\ StoriesValid(run, out.stories)
              THEN InsertStories(r1, out.stories) ELSE r1
    IN  IF wf[i].type = "loop" THEN CompleteLoop(r2, i, out)
        ELSE IF TriggeringLoop(r2, i) # 0
        THEN CompleteVerify(r2, i, TriggeringLoop(r2, i), out)
        ELSE CompleteSingle(r2, i, out)

\* The effect of completeStep on a running step of a live run. An output
\* whose STORIES_JSON does not validate fails the step with the parse error.
CompleteRunning(run, i, out) ==
    IF HasStoriesJson(out) /\ ~StoriesValid(run, out.stories)
    THEN FailRunning(run, i, "ParseError")
    ELSE LET r1 == MergeContext(run, out)
             r2 == IF HasStoriesJson(out) THEN InsertStories(r1, out.stories) ELSE r1
         IN  IF wf[i].type = "loop" THEN CompleteLoop(r2, i, out)
             ELSE IF TriggeringLoop(r2, i) # 0
             THEN CompleteVerify(r2, i, TriggeringLoop(r2, i), out)
             ELSE CompleteSingle(r2, i, out)

\* The StepResult last recorded for step i, as its position (0 if none).
ExistingResult(run, i) ==
    LET mine == {n \in 1..Len(run.stepResults) : run.stepResults[n].stepId = wf[i].id}
    IN  IF mine = {} THEN 0 ELSE CHOOSE n \in mine : \A m \in mine : m <= n

\* Variant: a pending step passes the validation too.
StepIsRunningOrPending(run, i) == run.steps[i].status \in {"running", "pending"}

\* "Validate that the step is in running."
StepIsRunning(run, i) == run.steps[i].status = "running"

\* Variant: a repeated completeStep on a done step advances the pipeline again.
completeRejectedAdvances(r, i) ==
    LET run == runs[r] IN
    /\ ~StepIsRunning(run, i)
    /\ IF run.steps[i].status = "done"
       THEN Commit([runs EXCEPT ![r] = advancePipeline(run, i)],
                   [Ret("complete", NoVal, r, i, NULL, "noop", NoVal)
                       EXCEPT !.stepResult = ExistingResult(run, i)])
       ELSE Commit(runs, Ret("complete", NoVal, r, i, NULL, "InvalidState", NoVal))

\* completeStep on a step that is not running returns before the output is
\* looked at: a done step yields its StepResult again, any other InvalidState.
completeRejected(r, i) ==
    LET run == runs[r] IN
    /\ ~StepIsRunning(run, i)
    /\ IF run.steps[i].status = "done"
       THEN Commit(runs, [Ret("complete", NoVal, r, i, NULL, "noop", NoVal)
                             EXCEPT !.stepResult = ExistingResult(run, i)])
       ELSE Commit(runs, Ret("complete", NoVal, r, i, NULL, "InvalidState", NoVal))

\* Variant: the status is compared with a spelling no run ever has.
RunIsCancelled(run) == run.status = "cancelled"

\* The run was canceled: completions and failures of its steps are ignored.
RunIsCanceled(run) == run.status = "canceled"

\* completeStep on a running step; ignored when the run was canceled.
completeStep(r, i, out) ==
    LET run == runs[r]
        new == CompleteRunning(run, i, out)
    IN  /\ StepIsRunning(run, i)
        /\ IF RunIsCanceled(run)
           THEN Commit(runs, Ret("complete", NoVal, r, i, NULL, "ignored", NoVal))
           ELSE /\ Len(new.stories) <= MaxStories
                /\ Len(new.stepResults) <= MaxResults
                /\ Commit([runs EXCEPT ![r] = new],
                          Ret("complete", NoVal, r, i, NULL,
                              IF HasStoriesJson(out) /\ ~StoriesValid(run, out.stories)
                              THEN "ParseError" ELSE "ok", NoVal))

\* -------------------------------------------------------------- failStep
\* failStep is called for a step an agent is running (by the agent or by a
\* watchdog); on a canceled run the call is ignored.
failStep(r, i) ==
    LET run == runs[r] IN
    /\ StepIsRunning(run, i)
    /\ IF RunIsCanceled(run)
       THEN Commit(runs, Ret("fail", NoVal, r, i, NULL, "ignored", NoVal))
       ELSE LET new == FailRunning(run, i, "error") IN
            /\ Len(new.stepResults) <= MaxResults
            /\ Commit([runs EXCEPT ![r] = new],
                      Ret("fail", NoVal, r, i, NULL, "ok", NoVal))

\* ------------------------------------------------------------- cancelRun
cancelRun(r) ==
    /\ runs[r].status = "running"
    /\ Commit([runs EXCEPT ![r].status = "canceled"],
              Ret("cancel", NoVal, r, 0, NULL, "ok", NoVal))

Next ==
    \/ \E a \in Agents : claimStep(a)
    \/ \E r \in Runs, i \in StepIdx : \E out \in OutputsOf(runs[r]) : completeStep(r, i, out)
    \/ \E r \in Runs, i \in StepIdx : completeRejected(r, i)
    \/ \E r \in Runs, i \in StepIdx : failStep(r, i)
    \/ \E r \in Runs : cancelRun(r)

Spec == Init /\ [][Next]_vars

\* A second specification: two runs of the plain loop workflow, polled by the
\* same agents, with the outputs a planner and a developer report.
RunsOutputs ==
    {Output("done", NoVal, NoVal, AbsentPayload),
     Output("done", NoVal, "c1", ArrayPayload(<<"US-1", "US-2">>))}

InitRuns ==
    /\ wf = PlainLoop
    /\ storyMax = DefaultMaxRetries
    /\ runs = [r \in {1, 2} |-> NewRun(wf)]
    /\ ret = NoRet
    /\ cronJobs = << >>
    /\ ensure = NoEnsure

NextRuns ==
    \/ \E a \in Agents : claimStep(a)
    \/ \E r \in Runs, i \in StepIdx, out \in RunsOutputs : completeStep(r, i, out)
    \/ \E r \in Runs, i \in StepIdx : failStep(r, i)
    \/ \E r \in Runs : cancelRun(r)

SpecRuns == InitRuns /\ [][NextRuns]_vars

\* A third specification: one run of each workflow, whose agents report
\* STORIES_JSON blocks up to and beyond the limit of 20 entries.
LongLabels ==
    <<"S01", "S02", "S03", "S04", "S05", "S06", "S07", "S08", "S09", "S10", "S11",
      "S12", "S13", "S14", "S15", "S16", "S17", "S18", "S19", "S20", "S21">>

LongPayloads ==
    {AbsentPayload, MalformedPayload, ArrayPayload(<<"S01", "S01">>)}
        \cup {ArrayPayload(SubSeq(LongLabels, 1, n)) :
                n \in {1, MaxStoriesJson, MaxStoriesJson + 1}}

StoriesOutputs == {Output("done", NoVal, NoVal, p) : p \in LongPayloads}

\* completeStep on a running step of a live run, for a run that may hold as
\* many stories as one STORIES_JSON block allows.
completeStories(r, i, out) ==
    LET run == runs[r]
        new == CompleteRunning(run, i, out)
    IN  /\ StepIsRunning(run, i)
        /\ ~RunIsCanceled(run)
        /\ Len(new.stories) <= MaxStoriesJson
        /\ Len(new.doneOrder) <= MaxStories
        /\ Len(new.stepResults) <= MaxResults
        /\ Commit([runs EXCEPT ![r] = new],
                  Ret("complete", NoVal, r, i, NULL,
                      IF HasStoriesJson(out) /\ ~StoriesValid(run, out.stories)
                      THEN "ParseError" ELSE "ok", NoVal))

NextStories ==
    \/ \E a \in Agents : claimStep(a)
    \/ \E r \in Runs, i \in StepIdx, out \in StoriesOutputs : completeStories(r, i, out)

SpecStories == Init /\ [][NextStories]_vars

\* ---------------------------------------------------------------- queries
StepsIn(run, st) == {i \in StepIdx : run.steps[i].status = st}

\* The loop step of the workflow, and the verify step it names.
LoopStep == CHOOSE i \in StepIdx : wf[i].type = "loop"

VerifyStep == IndexOf(wf[LoopStep].verifyStep)

\* A verify-each loop step held in running while its verify step executes:
\* no agent is working on it.
IsHeld(run, i) ==
    /\ wf[i].type = "loop"
    /\ wf[i].verifyEach
    /\ run.steps[i].status = "running"
    /\ run.steps[i].currentStoryId = NULL

\* Steps an agent is working on.
InWork(run) == {i \in StepsIn(run, "running") : ~IsHeld(run, i)}

BecomesRunning(r, k) ==
    /\ k \in 1..Len(runs[r].stories)
    /\ runs[r].stories[k].status # "running"
    /\ runs'[r].stories[k].status = "running"

\* ------------------------------------------------------------------ claims

\* C1: every claim call that returns work hands out a step of the calling
\* agent that was pending before the call and is running after it (and, for a
\* loop step, a story that was pending and is now running, recorded as the
\* step's current story), so a step is handed out again only after it went
\* back to pending; an agent with no pending step in a running run gets None.
C1_ClaimSwapsPendingToRunning ==
    [][ret'.op = "claim" =>
        /\ ret'.result = "found" =>
              LET r == ret'.run
                  i == ret'.step
                  k == ret'.story
              IN  /\ wf[i].agent = ret'.agent
                  /\ runs[r].steps[i].status = "pending"
                  /\ runs'[r].steps[i].status = "running"
                  /\ (wf[i].type = "loop") = (k # NULL)
                  /\ k # NULL => /\ runs[r].stories[k].status = "pending"
                                 /\ runs'[r].stories[k].status = "running"
                                 /\ runs'[r].steps[i].currentStoryId = k
        /\ (\A r \in Runs, i \in StepIdx :
               ~(runs[r].status = "running" /\ runs[r].steps[i].status = "pending"
                 /\ wf[i].agent = ret'.agent))
              => ret'.result = "none"]_vars

\* The loop step was handed out a second time, for the second story.
C1_Witness ==
    /\ ret.op = "claim" /\ ret.result = "found" /\ ret.story = 2
    /\ runs[ret.run].stories[1].status = "done"

\* C2 (as stated): in every running run exactly one step is pending and none
\* is running, or exactly one is running and none is pending.
C2_OnePendingXorOneRunning ==
    \A r \in Runs : runs[r].status = "running" =>
        \/ Cardinality(StepsIn(runs[r], "pending")) = 1 /\ StepsIn(runs[r], "running") = {}
        \/ Cardinality(StepsIn(runs[r], "running")) = 1 /\ StepsIn(runs[r], "pending") = {}

\* C2 (amended): in every running run exactly one step is pending and no
\* agent is working on a step, or an agent is working on exactly one step and
\* none is pending, where a verify-each loop step held in running without a
\* current story is not a step an agent is working on.
C2_OnePendingXorOneInWork ==
    \A r \in Runs : runs[r].status = "running" =>
        \/ Cardinality(StepsIn(runs[r], "pending")) = 1 /\ InWork(runs[r]) = {}
        \/ Cardinality(InWork(runs[r])) = 1 /\ StepsIn(runs[r], "pending") = {}

\* The loop step is held in running while its verify step is pending.
C2_Witness ==
    \E r \in Runs :
        /\ runs[r].status = "running"
        /\ \E i \in StepIdx : IsHeld(runs[r], i) /\ runs[r].steps[VerifyStep].status = "pending"

\* C3: a running run with no step an agent is working on has exactly one
\* pending step; a blocked or completed run has no pending step.
C3_PendingWhenIdle ==
    \A r \in Runs :
        /\ (runs[r].status = "running" /\ InWork(runs[r]) = {}) =>
               Cardinality(StepsIn(runs[r], "pending")) = 1
        /\ runs[r].status \in {"blocked", "completed"} => StepsIn(runs[r], "pending") = {}

\* C4: completeStep on a waiting, pending or failed step returns InvalidState
\* and changes no row of any run.
C4_CompleteNotRunningRejected ==
    [][(/\ ret'.op = "complete"
        /\ runs[ret'.run].steps[ret'.step].status \in {"waiting", "pending", "failed"})
       => (ret'.result = "InvalidState" /\ runs' = runs)]_vars

C4_Witness ==
    /\ ret.op = "complete" /\ ret.result = "InvalidState"
    /\ runs[ret.run].steps[ret.step].status = "pending"
    /\ runs[ret.run].stories # << >>

C7_VerifyGatesNextStory ==
    [][\A r \in Runs : wf[LoopStep].verifyEach =>
        /\ runs[r].steps[VerifyStep].status \in {"pending", "running"} =>
              \A k \in 1..Len(runs[r].stories) : ~BecomesRunning(r, k)
        /\ \A k \in 1..Len(runs[r].stories) : BecomesRunning(r, k) =>
              \A j \in 1..(k - 1) : runs[r].stories[j].status = "done"
        /\ (/\ ret'.op = "complete" /\ ret'.run = r /\ ret'.step = VerifyStep
            /\ IsHeld(runs[r], LoopStep) /\ LastDoneStory(runs[r]) # NULL
            /\ runs'[r].stories[LastDoneStory(runs[r])].status # "done") =>
              /\ runs'[r].stories[LastDoneStory(runs[r])].status = "pending"
              /\ runs'[r].steps[LoopStep].status = "pending"
              /\ \A j \in PendingStories(runs'[r]) : LastDoneStory(runs[r]) <= j]_vars

\* C7 (amended): in a verify-each loop no story becomes running while the
\* verification of the story just completed is outstanding; a story is started
\* only when every story before it is done or has failed for good; and a
\* verifier's retry either makes the story it rejected the next story claimed
\* or, with its retries exhausted, leaves it failed.
C7_VerifyGatesOrExhausts ==
    [][\A r \in Runs : wf[LoopStep].verifyEach =>
        /\ runs[r].steps[VerifyStep].status \in {"pending", "running"} =>
              \A k \in 1..Len(runs[r].stories) : ~BecomesRunning(r, k)
        /\ \A k \in 1..Len(runs[r].stories) : BecomesRunning(r, k) =>
              \A j \in 1..(k - 1) : runs[r].stories[j].status \in {"done", "failed"}
        /\ (/\ ret'.op = "complete" /\ ret'.run = r /\ ret'.step = VerifyStep
            /\ IsHeld(runs[r], LoopStep) /\ LastDoneStory(runs[r]) # NULL
            /\ runs'[r].stories[LastDoneStory(runs[r])].status # "done") =>
              \/ /\ runs'[r].stories[LastDoneStory(runs[r])].status = "pending"
                 /\ runs'[r].steps[LoopStep].status = "pending"
                 /\ \A j \in PendingStories(runs'[r]) : LastDoneStory(runs[r]) <= j
              \/ /\ runs'[r].stories[LastDoneStory(runs[r])].status = "failed"
                 /\ runs'[r].stories[LastDoneStory(runs[r])].retryCount
                       = runs'[r].stories[LastDoneStory(runs[r])].maxRetries]_vars

\* After a verifier's retry the developer claimed the same story again, with
\* a later story still pending.
C7_Witness ==
    /\ wf[LoopStep].verifyEach
    /\ ret.op = "claim" /\ ret.story = 1
    /\ runs[ret.run].stories[1].retryCount = 1
    /\ runs[ret.run].context.verify_feedback = "no tests"
    /\ Len(runs[ret.run].stories) >= 2 /\ runs[ret.run].stories[2].status = "pending"

\* C8: a story that becomes running was pending and no story with a lower
\* storyIndex was pending.
C8_LowestPendingStoryFirst ==
    [][\A r \in Runs : \A k \in 1..Len(runs[r].stories) : BecomesRunning(r, k) =>
        /\ runs[r].stories[k].status = "pending"
        /\ \A j \in 1..(k - 1) : runs[r].stories[j].status # "pending"
        /\ ret'.op = "claim" /\ ret'.story = k]_vars

\* The first of two pending stories was claimed.
C8_Witness ==
    /\ ret.op = "claim" /\ ret.story = 1
    /\ Len(runs[ret.run].stories) >= 2
    /\ runs[ret.run].stories[2].status = "pending"

\* C9: in a completed run every step is done, and a run becomes completed
\* only in a claim or complete call that leaves no step waiting.
C9_CompletedMeansAllDone ==
    [][\A r \in Runs : runs'[r].status = "completed" =>
        /\ \A i \in StepIdx : runs'[r].steps[i].status = "done"
        /\ runs[r].status # "completed" =>
              /\ ret'.op \in {"claim", "complete"}
              /\ StepsIn(runs[r], "waiting") = {}]_vars

\* A run with stories was completed.
C9_Witness ==
    \E r \in Runs : runs[r].status = "completed" /\ runs[r].stories # << >>

\* C10: a claim returns a step only of a run whose status is running, and a
\* canceled run stays canceled, so no claim after cancelRun returns a step of
\* the canceled run.
C10_ClaimOnlyFromRunningRuns ==
    [][/\ (ret'.op = "claim" /\ ret'.result = "found") => runs[ret'.run].status = "running"
       /\ \A r \in Runs : runs[r].status = "canceled" => runs'[r].status = "canceled"]_vars

\* A claim passed over the pending step of the canceled first run and
\* returned the second run's step.
C10_Witness ==
    /\ ret.op = "claim" /\ ret.result = "found" /\ ret.run = 2
    /\ runs[1].status = "canceled"
    /\ \E i \in StepIdx : runs[1].steps[i].status = "pending" /\ wf[i].agent = ret.agent

\* C11: completeStep or failStep on a step that is running in a canceled run
\* is ignored: the run stays canceled and no step, story, context key or
\* StepResult of any run changes.
C11_CanceledRunIgnoresCompletion ==
    [][(/\ ret'.op \in {"complete", "fail"}
        /\ runs[ret'.run].status = "canceled"
        /\ runs[ret'.run].steps[ret'.step].status = "running")
       => (ret'.result = "ignored" /\ runs' = runs)]_vars

\* A fail was ignored for a loop step canceled with its story in flight.
C11_Witness ==
    /\ ret.op = "fail" /\ ret.result = "ignored"
    /\ runs[ret.run].status = "canceled"
    /\ wf[ret.step].type = "loop"
    /\ runs[ret.run].steps[ret.step].currentStoryId # NULL
    /\ runs[ret.run].stories[runs[ret.run].steps[ret.step].currentStoryId].status = "running"

\* A verifier's completion of the verify step of run r (not canceled) with
\* STATUS retry and no STORIES_JSON block, for the loop step it was triggered
\* by.
VerifierRetries(r, out) ==
    /\ wf[LoopStep].verifyEach
    /\ ~RunIsCanceled(runs[r])
    /\ TriggeringLoop(runs[r], VerifyStep) # 0
    /\ LastDoneStory(runs[r]) # NULL
    /\ ParseStatus(out) = "retry" /\ ~HasStoriesJson(out)
    /\ completeStep(r, VerifyStep, out)

\* C12 (as stated): for a story with maxRetries = 1 in a verify-each loop with
\* no onFail.retryStep, the first verifier retry does not fail the story, and
\* the second marks it failed, the loop step failed and the run blocked.
C12_SecondRetryFailsStory ==
    [][\A r \in Runs : \A out \in OutputsOf(runs[r]) :
        LET k == LastDoneStory(runs[r]) IN
        (/\ VerifierRetries(r, out)
         /\ wf[LoopStep].retryStep = NoVal
         /\ runs[r].stories[k].maxRetries = 1) =>
            IF runs[r].stories[k].retryCount = 0
            THEN runs'[r].stories[k].status # "failed"
            ELSE /\ runs'[r].stories[k].status = "failed"
                 /\ runs'[r].steps[LoopStep].status = "failed"
                 /\ runs'[r].status = "blocked"]_vars

\* C12 (amended): in a verify-each loop with no onFail.retryStep, the
\* verifier's retry that brings a story's retryCount to its maxRetries marks
\* the story failed, the loop step failed and the run blocked, and an earlier
\* retry puts the story back to pending; with maxRetries = 1 that is the
\* first retry, so a story with maxRetries = 1 is never retried twice.
C12_RetryReachingMaxFailsStory ==
    [][\A r \in Runs : \A out \in OutputsOf(runs[r]) :
        LET k == LastDoneStory(runs[r])
            n == runs[r].stories[k].retryCount + 1
        IN  (VerifierRetries(r, out) /\ wf[LoopStep].retryStep = NoVal) =>
              /\ runs'[r].stories[k].retryCount = n
              /\ n <= runs[r].stories[k].maxRetries
              /\ IF n = runs[r].stories[k].maxRetries
                 THEN /\ runs'[r].stories[k].status = "failed"
                      /\ runs'[r].steps[LoopStep].status = "failed"
                      /\ runs'[r].status = "blocked"
                 ELSE /\ runs'[r].stories[k].status = "pending"
                      /\ runs'[r].steps[LoopStep].status = "pending"]_vars

\* The first retry failed a story with maxRetries = 1 and blocked the run.
C12_Witness ==
    /\ wf[LoopStep].verifyEach /\ wf[LoopStep].retryStep = NoVal
    /\ ret.op = "complete" /\ ret.step = VerifyStep
    /\ runs[ret.run].status = "blocked"
    /\ runs[ret.run].steps[LoopStep].status = "failed"
    /\ \E k \in 1..Len(runs[ret.run].stories) :
          /\ runs[ret.run].stories[k].maxRetries = 1
          /\ runs[ret.run].stories[k].retryCount = 1
          /\ runs[ret.run].stories[k].status = "failed"

\* The story most recently marked done, whatever its status now (NULL if none).
LastMarkedDone(run) ==
    IF run.doneOrder = << >> THEN NULL ELSE run.doneOrder[Len(run.doneOrder)]

\* C13: a verifier's STATUS retry on a story still under its retry limit adds
\* exactly 1 to the story's retryCount, puts the story back to pending, stores
\* the verifier's ISSUES block as verify_feedback, sets the loop step pending
\* and the verify step waiting; and the claim of the loop step that follows
\* hands out that same story together with the stored verify_feedback.
C13_RetryReturnsStoryWithFeedback ==
    [][\A r \in Runs :
        /\ \A out \in OutputsOf(runs[r]) :
              LET k == LastDoneStory(runs[r]) IN
              (/\ VerifierRetries(r, out)
               /\ runs[r].stories[k].retryCount + 1 < runs[r].stories[k].maxRetries) =>
                  /\ runs'[r].stories[k].retryCount = runs[r].stories[k].retryCount + 1
                  /\ runs'[r].stories[k].status = "pending"
                  /\ runs'[r].context.verify_feedback = out.issues
                  /\ runs'[r].steps[LoopStep].status = "pending"
                  /\ runs'[r].steps[VerifyStep].status = "waiting"
                  /\ LastMarkedDone(runs'[r]) = k
        /\ LET k == LastMarkedDone(runs[r]) IN
           (/\ wf[LoopStep].verifyEach
            /\ k # NULL /\ runs[r].stories[k].status = "pending"
            /\ ret'.op = "claim" /\ ret'.result = "found"
            /\ ret'.run = r /\ ret'.step = LoopStep) =>
               /\ ret'.story = k
               /\ ret'.agent = wf[LoopStep].agent
               /\ ret'.feedback = runs[r].context.verify_feedback
               /\ runs'[r].steps[LoopStep].currentStoryId = k
               /\ runs'[r].stories[k].status = "running"]_vars

\* The developer was handed the rejected story again with the verifier's
\* ISSUES as feedback.
C13_Witness ==
    /\ wf[LoopStep].verifyEach
    /\ ret.op = "claim" /\ ret.result = "found" /\ ret.step = LoopStep
    /\ ret.feedback = "no tests"
    /\ runs[ret.run].steps[LoopStep].currentStoryId = ret.story
    /\ runs[ret.run].stories[ret.story].retryCount = 1
    /\ runs[ret.run].stories[ret.story].status = "running"
    /\ LastMarkedDone(runs[ret.run]) = ret.story

\* The outputs of the scenario: the planner's two stories, and a plain
\* STATUS: done.
TwoStories == Output("done", NoVal, "c1", ArrayPayload(<<"US-1", "US-2">>))

StatusDone == Output("done", NoVal, NoVal, AbsentPayload)

\* A running run of plan, implement, verify, ship whose step rows have the
\* statuses `steps`, whose story rows have the statuses `stories`, and whose
\* loop step has current story `cur`.
StageIs(run, steps, stories, cur) ==
    /\ run.status = "running"
    /\ [i \in StepIdx |-> run.steps[i].status] = steps
    /\ [k \in 1..Len(run.stories) |-> run.stories[k].status] = stories
    /\ run.steps[LoopStep].currentStoryId = cur

\* C14: in the pipeline plan, implement (loop, verifyEach, verifyStep =
\* verify), verify, ship, each call of the scenario leads to the next stage:
\* plan's completion with two stories makes implement pending; then twice
\* claim(developer), complete, claim(verifier), complete with STATUS done; the
\* last call leaves both stories done, implement and verify done, ship
\* pending and the run running.
C14_TwoVerifiedStoriesReachShip ==
    [][\A r \in Runs : wf = FeatureDev =>
        LET a == runs[r]
            b == runs'[r]
        IN
        /\ (StageIs(a, <<"running", "waiting", "waiting", "waiting">>, << >>, NULL)
            /\ completeStep(r, 1, TwoStories))
              => StageIs(b, <<"done", "pending", "waiting", "waiting">>, <<"pending", "pending">>, NULL)
        /\ (StageIs(a, <<"done", "pending", "waiting", "waiting">>, <<"pending", "pending">>, NULL)
            /\ claimStep("developer"))
              => StageIs(b, <<"done", "running", "waiting", "waiting">>, <<"running", "pending">>, 1)
        /\ (StageIs(a, <<"done", "running", "waiting", "waiting">>, <<"running", "pending">>, 1)
            /\ completeStep(r, 2, StatusDone))
              => StageIs(b, <<"done", "running", "pending", "waiting">>, <<"done", "pending">>, NULL)
        /\ (StageIs(a, <<"done", "running", "pending", "waiting">>, <<"done", "pending">>, NULL)
            /\ claimStep("verifier"))
              => StageIs(b, <<"done", "running", "running", "waiting">>, <<"done", "pending">>, NULL)
        /\ (StageIs(a, <<"done", "running", "running", "waiting">>, <<"done", "pending">>, NULL)
            /\ completeStep(r, 3, StatusDone))
              => StageIs(b, <<"done", "pending", "waiting", "waiting">>, <<"done", "pending">>, NULL)
        /\ (StageIs(a, <<"done", "pending", "waiting", "waiting">>, <<"done", "pending">>, NULL)
            /\ claimStep("developer"))
              => StageIs(b, <<"done", "running", "waiting", "waiting">>, <<"done", "running">>, 2)
        /\ (StageIs(a, <<"done", "running", "waiting", "waiting">>, <<"done", "running">>, 2)
            /\ completeStep(r, 2, StatusDone))
              => StageIs(b, <<"done", "running", "pending", "waiting">>, <<"done", "done">>, NULL)
        /\ (StageIs(a, <<"done", "running", "pending", "waiting">>, <<"done", "done">>, NULL)
            /\ claimStep("verifier"))
              => StageIs(b, <<"done", "running", "running", "waiting">>, <<"done", "done">>, NULL)
        /\ (StageIs(a, <<"done", "running", "running", "waiting">>, <<"done", "done">>, NULL)
            /\ completeStep(r, 3, StatusDone))
              => StageIs(b, <<"done", "done", "done", "pending">>, <<"done", "done">>, NULL)]_vars

\* The scenario ran to its end with no retry and no failure on the way: only
\* plan has a StepResult, and the verifier's last completion left ship pending.
C14_Witness ==
    /\ wf = FeatureDev
    /\ ret.op = "complete" /\ ret.step = 3 /\ ret.result = "ok"
    /\ StageIs(runs[ret.run], <<"done", "done", "done", "pending">>, <<"done", "done">>, NULL)
    /\ \A k \in 1..2 : runs[ret.run].stories[k].retryCount = 0
    /\ Len(runs[ret.run].stepResults) = 1

\* One more failure of running step i exhausts its retries: those of its
\* current story for a loop step, its own for a single step.
WouldExhaust(run, i) ==
    IF wf[i].type = "loop"
    THEN LET k == run.steps[i].currentStoryId IN
         k # NULL /\ run.stories[k].retryCount + 1 >= run.stories[k].maxRetries
    ELSE run.steps[i].retryCount + 1 >= wf[i].maxRetries

\* A call on run r (running) exhausts the retries of step i: a failStep or a
\* completeStep whose STORIES_JSON is rejected on step i, or a verifier's
\* STATUS retry that exhausts the story of loop step i.
Exhausts(r, i) ==
    /\ runs[r].status = "running"
    /\ \/ WouldExhaust(runs[r], i) /\ failStep(r, i)
       \/ /\ WouldExhaust(runs[r], i)
          /\ \E out \in OutputsOf(runs[r]) :
                /\ HasStoriesJson(out) /\ ~StoriesValid(runs[r], out.stories)
                /\ completeStep(r, i, out)
       \/ /\ i = LoopStep
          /\ \E out \in OutputsOf(runs[r]) :
                /\ VerifierRetries(r, out)
                /\ LET k == LastDoneStory(runs[r]) IN
                   runs[r].stories[k].retryCount + 1 >= runs[r].stories[k].maxRetries

C16_ExhaustionBlocksRun ==
    [][\A r \in Runs, i \in StepIdx :
        (Exhausts(r, i) /\ wf[i].retryStep = NoVal) =>
            /\ runs'[r].status = "blocked"
            /\ runs'[r].steps[i].status = "failed"
            /\ wf[i].escalateTo # NoVal =>
                  runs'[r].context.escalate_to = wf[i].escalateTo
            /\ runs'[r].context.escalate_to # NoVal => wf[i].escalateTo # NoVal]_vars

\* A loop step with escalateTo exhausted its story and the run was blocked
\* with escalate_to recorded.
C16_Witness ==
    /\ ret.op = "fail" /\ ret.step = LoopStep
    /\ wf[LoopStep].escalateTo = "planner"
    /\ runs[ret.run].status = "blocked"
    /\ runs[ret.run].steps[LoopStep].status = "failed"
    /\ runs[ret.run].context.escalate_to = "planner"
    /\ \E k \in 1..Len(runs[ret.run].stories) : runs[ret.run].stories[k].status = "failed"

\* The verify step of a verify-each loop is pending or running.
VerifyActive(run) ==
    wf[LoopStep].verifyEach /\ run.steps[VerifyStep].status \in {"pending", "running"}

\* C17 (as stated): the loop step's currentStoryId is non-null if and only if
\* the loop step is running or its verify step is pending or running.
C17_CurrentStoryIffRunningOrVerifying ==
    \A r \in Runs :
        (runs[r].steps[LoopStep].currentStoryId # NULL)
            <=> (runs[r].steps[LoopStep].status = "running" \/ VerifyActive(runs[r]))

\* C17 (amended): a running loop step has a non-null currentStoryId only
\* while a developer has that story in flight: the id then names a running
\* story and the verify step is neither pending nor running. So while the
\* loop step is held and its verify step is pending or running, its
\* currentStoryId is null.
C17_CurrentStoryOnlyWhileDeveloping ==
    \A r \in Runs :
        LET s == runs[r].steps[LoopStep] IN
        (s.status = "running" /\ s.currentStoryId # NULL) =>
            /\ runs[r].stories[s.currentStoryId].status = "running"
            /\ ~VerifyActive(runs[r])

\* The verifier is working on a completed story while the held loop step has
\* no current story.
C17_Witness ==
    \E r \in Runs :
        /\ wf[LoopStep].verifyEach
        /\ runs[r].status = "running"
        /\ runs[r].steps[LoopStep].status = "running"
        /\ runs[r].steps[LoopStep].currentStoryId = NULL
        /\ runs[r].steps[VerifyStep].status = "running"
        /\ LastDoneStory(runs[r]) # NULL

\* C18: a running loop step with verify_each either has a currentStoryId that
\* names a running story, or its verify step is pending or running.
C18_HeldLoopHasStoryOrVerify ==
    \A r \in Runs :
        (wf[LoopStep].verifyEach /\ runs[r].steps[LoopStep].status = "running") =>
            \/ /\ runs[r].steps[LoopStep].currentStoryId # NULL
               /\ runs[r].stories[runs[r].steps[LoopStep].currentStoryId].status = "running"
            \/ VerifyActive(runs[r])

\* The running steps of a run that are assigned to one agent.
RunningStepsOf(run, agent) ==
    {i \in StepIdx : wf[i].agent = agent /\ run.steps[i].status = "running"}

\* C19: in every reachable state, for each run and each agent id, at most one
\* step of that run assigned to that agent is running.
C19_OneRunningStepPerAgent ==
    \A r \in Runs, a \in Agents : Cardinality(RunningStepsOf(runs[r], a)) <= 1

\* The loop step of run r was put back to waiting by a rewind: stories exist,
\* so the loop step had been released before.
Rewound(r) ==
    /\ r \in Runs
    /\ runs[r].status = "running"
    /\ runs[r].steps[LoopStep].status = "waiting"
    /\ runs[r].stories # << >>

InsertsStories(r, i, out) ==
    /\ ret'.op = "complete" /\ ret'.result = "ok" /\ ret'.run = r /\ ret'.step = i
    /\ ~RunIsCanceled(runs[r])
    /\ HasStoriesJson(out)
    /\ StoriesValid(runs[r], out.stories)
    /\ out.stories.ids # << >>
    /\ completeStep(r, i, out)

\* C21: storyIndex is unique within a run; an insertion keeps the existing
\* rows' indexes and appends the array's stories in array order, all pending
\* unless claimed in the same call, with indexes above every existing one, and
\* the first insertion numbers them by 0-based array position.
C21_StoryIndexUniqueAndIncreasing ==
    [][\A r \in Runs :
        LET old == runs[r].stories
            new == runs'[r].stories
        IN  /\ \A j, k \in 1..Len(new) : j # k => new[j].storyIndex # new[k].storyIndex
            /\ \A i \in StepIdx, out \in OutputsOf(runs[r]) :
                 InsertsStories(r, i, out) =>
                    /\ Len(new) = Len(old) + Len(out.stories.ids)
                    /\ \A k \in 1..Len(old) : new[k].storyIndex = old[k].storyIndex
                    /\ \A n \in 1..Len(out.stories.ids) :
                         /\ new[Len(old) + n].storyId = out.stories.ids[n]
                         /\ new[Len(old) + n].status = "pending"
                         /\ \A k \in 1..Len(old) :
                              new[Len(old) + n].storyIndex > old[k].storyIndex
                         /\ \A m \in 1..Len(out.stories.ids) :
                              m < n => new[Len(old) + m].storyIndex
                                          < new[Len(old) + n].storyIndex
                         /\ old = << >> => new[n].storyIndex = n - 1]_vars

\* After a rewind the story-producing step was completed again and the run
\* holds a failed story of the earlier cycle and a pending story with a higher
\* storyIndex.
C21_Witness ==
    \E r \in Runs :
        /\ ret.op = "complete" /\ ret.result = "ok" /\ ret.run = r
        /\ wf[LoopStep].retryStep # NoVal
        /\ ret.step = IndexOf(wf[LoopStep].retryStep)
        /\ Len(runs[r].stories) = 2
        /\ runs[r].stories[1].status = "failed"
        /\ runs[r].stories[2].status = "pending"
        /\ runs[r].stories[2].storyIndex = 1

\* completeStories of step i of run r with an output whose STORIES_JSON block
\* does not validate.
RejectsStories(r, i, out) ==
    /\ HasStoriesJson(out)
    /\ ~StoriesValid(runs[r], out.stories)
    /\ completeStories(r, i, out)

\* The last StepResult of the run records a failure of step i with the error.
ErrorRecorded(run, i) ==
    /\ run.stepResults # << >>
    /\ run.stepResults[Len(run.stepResults)].stepId = wf[i].id
    /\ run.stepResults[Len(run.stepResults)].status = "retry"
    /\ run.stepResults[Len(run.stepResults)].output = "ParseError"

VerifierPasses(r, out) ==
    /\ ret'.op = "complete" /\ ret'.result = "ok" /\ ret'.run = r
    /\ wf[LoopStep].verifyEach
    /\ ret'.step = VerifyStep
    /\ ~RunIsCanceled(runs[r])
    /\ TriggeringLoop(runs[r], VerifyStep) = LoopStep
    /\ ParseStatus(out) = "done"
    /\ HasStoriesJson(out) => StoriesValid(runs[r], out.stories)
    /\ completeStep(r, VerifyStep, out)

\* C23: when the verify step of a verify-each loop completes with STATUS done,
\* verify_feedback is cleared; with a story still pending the loop step becomes
\* pending and the verify step waiting; otherwise both become done and the
\* first waiting step after the verify step becomes pending (the run is
\* completed if there is none).
C23_VerifyDoneReleasesLoopOrAdvances ==
    [][\A r \in Runs : \A out \in OutputsOf(runs[r]) :
        VerifierPasses(r, out) =>
            LET waiting == {j \in StepIdx : j > VerifyStep /\ runs[r].steps[j].status = "waiting"}
                others == StepIdx \ {LoopStep, VerifyStep}
            IN  /\ runs'[r].context.verify_feedback = NoVal
                /\ PendingStories(runs'[r]) # {} =>
                      /\ runs'[r].steps[LoopStep].status = "pending"
                      /\ runs'[r].steps[VerifyStep].status = "waiting"
                      /\ \A j \in others : runs'[r].steps[j] = runs[r].steps[j]
                      /\ runs'[r].status = runs[r].status
                /\ PendingStories(runs'[r]) = {} =>
                      /\ runs'[r].steps[LoopStep].status = "done"
                      /\ runs'[r].steps[VerifyStep].status = "done"
                      /\ IF waiting = {}
                         THEN /\ runs'[r].status = "completed"
                              /\ \A j \in others : runs'[r].steps[j] = runs[r].steps[j]
                         ELSE /\ runs'[r].steps[Min(waiting)].status = "pending"
                              /\ runs'[r].status = runs[r].status
                              /\ \A j \in others \ {Min(waiting)} :
                                    runs'[r].steps[j] = runs[r].steps[j]]_vars

\* A story that had been sent back with feedback was redone and has now been
\* verified: the feedback is gone, another story is pending, the loop step is
\* pending and the verify step waiting.
C23_Witness ==
    \E r \in Runs :
        /\ wf[LoopStep].verifyEach
        /\ ret.op = "complete" /\ ret.result = "ok" /\ ret.step = VerifyStep
        /\ runs[r].status = "running"
        /\ runs[r].context.verify_feedback = NoVal
        /\ runs[r].steps[LoopStep].status = "pending"
        /\ runs[r].steps[VerifyStep].status = "waiting"
        /\ \E k \in 1..Len(runs[r].stories) :
              runs[r].stories[k].status = "done" /\ runs[r].stories[k].retryCount > 0
        /\ PendingStories(runs[r]) # {}

\* completeStep for the current story of a loop step without verify_each.
IterationCompletes(r, out) ==
    /\ ~wf[LoopStep].verifyEach
    /\ ~RunIsCanceled(runs[r])
    /\ runs[r].steps[LoopStep].currentStoryId # NULL
    /\ HasStoriesJson(out) => StoriesValid(runs[r], out.stories)
    /\ completeStep(r, LoopStep, out)

\* C24: completing a story iteration of a loop step without verify_each marks
\* the current story done and clears currentStoryId; the loop step becomes
\* pending if a story is still pending, and otherwise done with the pipeline
\* advanced; and a loop step never becomes done while a story of the run is
\* pending or running.
C24_PlainLoopIteratesUntilNoPending ==
    [][\A r \in Runs :
        /\ \A out \in OutputsOf(runs[r]) :
             IterationCompletes(r, out) =>
                LET k == runs[r].steps[LoopStep].currentStoryId
                    waiting == {j \in StepIdx :
                                  j > LoopStep /\ runs[r].steps[j].status = "waiting"}
                IN  /\ runs'[r].stories[k].status = "done"
                    /\ runs'[r].stories[k].output # NoVal
                    /\ runs'[r].steps[LoopStep].currentStoryId = NULL
                    /\ PendingStories(runs'[r]) # {} =>
                          /\ runs'[r].steps[LoopStep].status = "pending"
                          /\ \A j \in StepIdx \ {LoopStep} :
                                runs'[r].steps[j] = runs[r].steps[j]
                    /\ PendingStories(runs'[r]) = {} =>
                          /\ runs'[r].steps[LoopStep].status = "done"
                          /\ IF waiting = {}
                             THEN runs'[r].status = "completed"
                             ELSE runs'[r].steps[Min(waiting)].status = "pending"
        /\ (runs[r].steps[LoopStep].status # "done"
              /\ runs'[r].steps[LoopStep].status = "done") =>
             \A k \in 1..Len(runs'[r].stories) :
                runs'[r].stories[k].status \notin {"pending", "running"}]_vars

\* In a loop without verify_each the first story was completed and the second
\* is still pending: the loop step is pending again with no current story.
C24_Witness ==
    \E r \in Runs :
        /\ ~wf[LoopStep].verifyEach
        /\ ret.op = "complete" /\ ret.result = "ok" /\ ret.step = LoopStep
        /\ runs[r].steps[LoopStep].status = "pending"
        /\ runs[r].steps[LoopStep].currentStoryId = NULL
        /\ Len(runs[r].stories) = 2
        /\ runs[r].stories[1].status = "done"
        /\ runs[r].stories[2].status = "pending"

\* completeStep on a running single step that is not the verify step of a held
\* loop step.
SingleCompletes(r, i, out) ==
    /\ ret'.op = "complete" /\ ret'.result = "ok" /\ ret'.run = r /\ ret'.step = i
    /\ wf[i].type = "single"
    /\ TriggeringLoop(runs[r], i) = 0
    /\ ~RunIsCanceled(runs[r])
    /\ HasStoriesJson(out) => StoriesValid(runs[r], out.stories)
    /\ completeStep(r, i, out)

\* C25: completing a running single step sets it to done and advances the
\* pipeline: the first waiting step after it becomes pending and no other step
\* changes status; with no waiting step left the run becomes completed.
C25_SingleCompletionAdvances ==
    [][\A r \in Runs, i \in StepIdx : \A out \in OutputsOf(runs[r]) :
        SingleCompletes(r, i, out) =>
            LET waiting == {j \in StepIdx : j > i /\ runs[r].steps[j].status = "waiting"}
            IN  /\ runs'[r].steps[i].status = "done"
                /\ Len(runs'[r].stepResults) = Len(runs[r].stepResults) + 1
                /\ IF waiting = {}
                   THEN /\ runs'[r].status = "completed"
                        /\ \A j \in StepIdx \ {i} :
                              runs'[r].steps[j].status = runs[r].steps[j].status
                   ELSE /\ runs'[r].steps[Min(waiting)].status = "pending"
                        /\ runs'[r].status = runs[r].status
                        /\ \A j \in StepIdx \ {i, Min(waiting)} :
                              runs'[r].steps[j].status = runs[r].steps[j].status]_vars

\* A single step was completed: it is done, the step after it is pending and a
\* later step is still waiting.
C25_Witness ==
    \E r \in Runs, i \in StepIdx :
        /\ wf[i].type = "single"
        /\ ret.op = "complete" /\ ret.result = "ok" /\ ret.run = r /\ ret.step = i
        /\ runs[r].status = "running"
        /\ runs[r].steps[i].status = "done"
        /\ i + 2 \in StepIdx
        /\ runs[r].steps[i + 1].status = "pending"
        /\ runs[r].steps[i + 2].status = "waiting"

\* claimStep by the agent selects the pending loop step of run r, which has no
\* pending story.
ClaimFindsNoStory(agent, r) ==
    /\ ClaimCandidates(agent) # {}
    /\ FirstCandidate(ClaimCandidates(agent)) = <<r, LoopStep>>
    /\ PendingStories(runs[r]) = {}
    /\ claimStep(agent)

\* C26 (as stated): a claim on a pending loop step with no pending story marks
\* the step done, advances the pipeline and returns the result of one further
\* probe for the same agent: if the agent then has a claimable step, the call
\* returns a step.
C26_ClaimReprobesOnce ==
    [][\A a \in Agents, r \in Runs :
        ClaimFindsNoStory(a, r) =>
            /\ runs'[r].steps[LoopStep].status = "done"
            /\ (\E i \in StepIdx : /\ wf[i].agent = a
                                   /\ runs'[r].status = "running"
                                   /\ runs'[r].steps[i].status \in {"pending", "running"}
                                   /\ runs[r].steps[i].status = "waiting")
                  => ret'.result = "found"]_vars

\* C26 (amended): a claim on a pending loop step with no pending story marks
\* the step done, advances the pipeline (the first waiting step after it
\* becomes pending, or the run is completed) and returns no step, without
\* probing again: no step is handed out in that call, and the step released
\* by the advancement stays pending for a later claim.
C26_ClaimFinishesLoopAndReturnsNone ==
    [][\A a \in Agents, r \in Runs :
        ClaimFindsNoStory(a, r) =>
            LET waiting == {j \in StepIdx :
                              j > LoopStep /\ runs[r].steps[j].status = "waiting"}
            IN  /\ runs'[r].steps[LoopStep].status = "done"
                /\ ret'.op = "claim" /\ ret'.result = "none"
                /\ \A i \in StepIdx : runs'[r].steps[i].status = "running"
                                         => runs[r].steps[i].status = "running"
                /\ IF waiting = {}
                   THEN runs'[r].status = "completed"
                   ELSE /\ runs'[r].steps[Min(waiting)].status = "pending"
                        /\ runs'[r].status = "running"]_vars

\* The developer's claim found the loop step with no pending story: the loop
\* step is done, the call returned nothing, and the developer's next step,
\* released by the advancement, is still pending.
C26_Witness ==
    \E r \in Runs, i \in StepIdx :
        /\ ret.op = "claim" /\ ret.result = "none" /\ ret.agent = wf[LoopStep].agent
        /\ runs[r].status = "running"
        /\ runs[r].steps[LoopStep].status = "done"
        /\ i > LoopStep
        /\ wf[i].agent = ret.agent
        /\ runs[r].steps[i].status = "pending"

\* failStep on a running single step of a run that was not canceled.
SingleFails(r, i) ==
    /\ wf[i].type = "single"
    /\ ~RunIsCanceled(runs[r])
    /\ failStep(r, i)

\* The state of the steps after on_fail.retry_step of step i rewound the run:
\* the named step pending, the steps from it to step i waiting, step i's
\* retryCount cleared.
RewoundFrom(r, i) ==
    LET t == IndexOf(wf[i].retryStep) IN
    /\ runs'[r].steps[t].status = "pending"
    /\ \A j \in StepIdx : (j # t /\ t <= j /\ j <= i) => runs'[r].steps[j].status = "waiting"
    /\ runs'[r].steps[i].retryCount = 0
    /\ runs'[r].status = runs[r].status

\* C27: failStep on a running single step records the error and charges the
\* step one retry; under maxRetries the step goes back to pending (claimable
\* again by its agent while the run is running); otherwise the step is failed
\* and on_fail applied: the run rewound to retry_step, or else blocked. The
\* step's retryCount never exceeds maxRetries.
C27_SingleFailRetriesThenFails ==
    [][\A r \in Runs, i \in StepIdx :
        SingleFails(r, i) =>
            LET n == runs[r].steps[i].retryCount + 1 IN
            /\ Len(runs'[r].stepResults) = Len(runs[r].stepResults) + 1
            /\ runs'[r].stepResults[Len(runs'[r].stepResults)].status = "retry"
            /\ runs'[r].steps[i].retryCount <= wf[i].maxRetries
            /\ n < wf[i].maxRetries =>
                  /\ runs'[r].steps[i].status = "pending"
                  /\ runs'[r].steps[i].retryCount = n
                  /\ runs'[r].status = runs[r].status
                  /\ \A j \in StepIdx \ {i} : runs'[r].steps[j] = runs[r].steps[j]
            /\ n >= wf[i].maxRetries =>
                  IF wf[i].retryStep # NoVal
                  THEN RewoundFrom(r, i)
                  ELSE /\ runs'[r].steps[i].status = "failed"
                       /\ runs'[r].steps[i].retryCount = n
                       /\ runs'[r].status = "blocked"
                       /\ runs'[r].context.escalate_to =
                             (IF wf[i].escalateTo # NoVal THEN wf[i].escalateTo
                              ELSE runs[r].context.escalate_to)]_vars

\* A single step with maxRetries 2 failed once: it is pending again with
\* retryCount 1 in a running run.
C27_Witness ==
    \E r \in Runs, i \in StepIdx :
        /\ wf[i].type = "single"
        /\ ret.op = "fail" /\ ret.result = "ok" /\ ret.run = r /\ ret.step = i
        /\ runs[r].status = "running"
        /\ runs[r].steps[i].status = "pending"
        /\ runs[r].steps[i].retryCount = 1

\* failStep on a running loop step that has a current story, in a run that
\* was not canceled.
StoryFails(r) ==
    /\ runs[r].steps[LoopStep].currentStoryId # NULL
    /\ ~RunIsCanceled(runs[r])
    /\ failStep(r, LoopStep)

StepTransitions ==
    {<<"waiting", "pending">>, <<"pending", "running">>, <<"running", "done">>,
     <<"running", "failed">>, <<"failed", "pending">>, <<"done", "waiting">>,
     <<"running", "pending">>}

\* The further status changes the engine makes: a pending loop step with no
\* pending story is marked done by claimStep; the verify step is reset to
\* waiting after each story, and a rewind resets running steps to waiting; the
\* step named by on_fail.retry_step goes from done to pending.
StepTransitionsMore ==
    {<<"pending", "done">>, <<"running", "waiting">>, <<"done", "pending">>}

\* C29 (as stated): every status change of a step instance is one of
\* waiting->pending, pending->running, running->done, running->failed,
\* failed->pending, done->waiting, running->pending.
C29_StepTransitionsListed ==
    [][\A r \in Runs, i \in StepIdx :
        runs'[r].steps[i].status # runs[r].steps[i].status =>
            <<runs[r].steps[i].status, runs'[r].steps[i].status>> \in StepTransitions]_vars

\* C29 (amended): every status change of a step instance is one of those, or
\* pending->done (only a loop step, in a claim that finds no pending story),
\* running->waiting, or done->pending (only the step named by a retry_step).
C29_StepTransitionsComplete ==
    [][\A r \in Runs, i \in StepIdx :
        LET a == runs[r].steps[i].status
            b == runs'[r].steps[i].status
        IN  a # b =>
              /\ <<a, b>> \in StepTransitions \cup StepTransitionsMore
              /\ <<a, b>> = <<"pending", "done">> =>
                    (wf[i].type = "loop" /\ ret'.op = "claim")
              /\ <<a, b>> = <<"done", "pending">> =>
                    \E j \in StepIdx : wf[j].retryStep = wf[i].id]_vars

\* The verifier sent a story back: the verify step went from running to
\* waiting and the loop step from running to pending.
C29_Witness ==
    \E r \in Runs :
        /\ wf[LoopStep].verifyEach
        /\ ret.op = "complete" /\ ret.result = "ok" /\ ret.step = VerifyStep
        /\ runs[r].context.verify_feedback # NoVal
        /\ runs[r].steps[VerifyStep].status = "waiting"
        /\ runs[r].steps[LoopStep].status = "pending"

\* The status changes of a story named by the state machine summary.
StoryTransitions ==
    {<<"pending", "running">>, <<"running", "done">>, <<"running", "failed">>,
     <<"done", "pending">>}

\* The further status changes the engine makes: a story whose developer fails
\* with retries left goes back to pending, and a verifier's retry that
\* exhausts the retries fails a story that was done.
StoryTransitionsMore == {<<"running", "pending">>, <<"done", "failed">>}

\* The status of every story of run r changes only by a pair in T.
StoriesChangeBy(r, T) ==
    \A k \in 1..Len(runs[r].stories) :
        runs'[r].stories[k].status # runs[r].stories[k].status =>
            <<runs[r].stories[k].status, runs'[r].stories[k].status>> \in T

\* C30 (as stated): every status change of a story is one of pending->running,
\* running->done, running->failed, done->pending; a failed story never
\* changes status again.
C30_StoryTransitionsListed ==
    [][\A r \in Runs : StoriesChangeBy(r, StoryTransitions)]_vars

\* C30 (amended): every status change of a story is one of those, or
\* running->pending (failStep with retries left), or done->failed (the
\* verifier's retry that exhausts the story's retries); a failed story never
\* changes status again, and no story row is removed.
C30_StoryTransitionsComplete ==
    [][\A r \in Runs :
        /\ Len(runs'[r].stories) >= Len(runs[r].stories)
        /\ StoriesChangeBy(r, StoryTransitions \cup StoryTransitionsMore)
        /\ \A k \in 1..Len(runs[r].stories) :
              /\ (runs[r].stories[k].status = "running"
                    /\ runs'[r].stories[k].status = "pending") => ret'.op \in {"fail", "complete"}
              /\ (runs[r].stories[k].status = "done"
                    /\ runs'[r].stories[k].status = "failed") =>
                       (ret'.op = "complete" /\ ret'.step = VerifyStep)]_vars

\* A story failed by the verifier's last retry is still failed after the run
\* was rewound and the planner claimed its step again.
C30_Witness ==
    \E r \in Runs :
        /\ ret.op = "claim" /\ ret.result = "found" /\ ret.run = r
        /\ runs[r].status = "running"
        /\ \E k \in 1..Len(runs[r].stories) :
              /\ runs[r].stories[k].status = "failed"
              /\ runs[r].stories[k].output # NoVal

\* failStep of running step i of run r, the run not being canceled.
FailCall(r, i) ==
    /\ ret'.op = "fail" /\ ret'.run = r /\ ret'.step = i
    /\ ~RunIsCanceled(runs[r])
    /\ failStep(r, i)

\* completeStep of the loop step of run r for its current story.
StoryIterationCompletes(r, out) ==
    /\ ret'.op = "complete" /\ ret'.result = "ok" /\ ret'.run = r
    /\ ret'.step = LoopStep
    /\ ~RunIsCanceled(runs[r])
    /\ runs[r].steps[LoopStep].currentStoryId # NULL
    /\ HasStoriesJson(out) => StoriesValid(runs[r], out.stories)
    /\ completeStep(r, LoopStep, out)

PlainNoRewind ==
    << StepDef("plan", "planner", "single", FALSE, NoVal, DefaultMaxRetries, NoVal, NoVal),
       StepDef("implement", "developer", "loop", FALSE, NoVal, 1, NoVal, "planner"),
       StepDef("ship", "developer", "single", FALSE, NoVal, 1, NoVal, NoVal) >>

\* The workflows in which no step has on_fail.retry_step.
NoRewindWorkflows ==
    {w \in Workflows \cup {PlainNoRewind} : \A i \in 1..Len(w) : w[i].retryStep = NoVal}

\* The rows of a run the engine can still read: the stories that are pending
\* or running, the story most recently marked done, and a story a step names
\* as current. Stories that are finished for good and the StepResult list are
\* written but never read back by claim, complete or fail, so they are left
\* out and the kept rows are renumbered in story_index order.
Compact(run) ==
    LET cur == {run.steps[i].currentStoryId : i \in StepIdx} \ {NULL}
        last == LastDoneStory(run)
        keep == {k \in 1..Len(run.stories) :
                    \/ run.stories[k].status \in {"pending", "running"}
                    \/ k = last
                    \/ k \in cur}
        pos(k) == Cardinality({j \in keep : j <= k})
        row(n) == CHOOSE k \in keep : pos(k) = n
    IN  [run EXCEPT
            !.stories = [n \in 1..Cardinality(keep) |->
                            [run.stories[row(n)] EXCEPT !.storyIndex = n - 1]],
            !.steps = [i \in StepIdx |->
                          [run.steps[i] EXCEPT
                              !.currentStoryId = IF @ = NULL THEN NULL ELSE pos(@)]],
            !.doneOrder = IF last = NULL THEN << >> ELSE <<pos(last)>>,
            !.stepResults = << >>]

\* An id no story of the run carries; the id of a row that Compact left out
\* is free again and stands for an id the run never used.
FreshLabel(run) ==
    LET used == {run.stories[k].storyId : k \in 1..Len(run.stories)}
        free == {n \in 1..Len(StoryLabels) : StoryLabels[n] \notin used}
    IN  StoryLabels[Min(free)]

\* The outcomes an agent may report: each STATUS, a retry with an ISSUES
\* block, and a STORIES_JSON block that is unparsable, that names two stories,
\* or that adds one story under an id the run does not hold.
LiveOutputs(run) ==
    {Output(st, NoVal, NoVal, AbsentPayload) : st \in {"done", "retry", "blocked"}}
        \cup {Output("retry", "no tests", NoVal, AbsentPayload)}
        \cup {Output("done", NoVal, NoVal, p) :
                 p \in {MalformedPayload, ArrayPayload(<<"US-1", "US-2">>),
                        ArrayPayload(<<FreshLabel(run)>>)}}

\* completeStep on a running step, ignored when the run was canceled; the run
\* holds at most MaxStories stories that are not finished.
completeLive(r, i, out) ==
    LET run == runs[r]
        new == Compact(CompleteRunning(run, i, out))
    IN  /\ StepIsRunning(run, i)
        /\ IF RunIsCanceled(run)
           THEN Commit(runs, Ret("complete", NoVal, r, i, NULL, "ignored", NoVal))
           ELSE /\ Len(new.stories) <= MaxStories
                /\ Commit([runs EXCEPT ![r] = new],
                          Ret("complete", NoVal, r, i, NULL,
                              IF HasStoriesJson(out) /\ ~StoriesValid(run, out.stories)
                              THEN "ParseError" ELSE "ok", NoVal))

\* failStep on a running step, ignored when the run was canceled.
failLive(r, i) ==
    LET run == runs[r] IN
    /\ StepIsRunning(run, i)
    /\ IF RunIsCanceled(run)
       THEN Commit(runs, Ret("fail", NoVal, r, i, NULL, "ignored", NoVal))
       ELSE Commit([runs EXCEPT ![r] = Compact(FailRunning(run, i, "error"))],
                   Ret("fail", NoVal, r, i, NULL, "ok", NoVal))

\* The agent working on step i reports: it fails the step or completes it.
reportLive(i) ==
    \E r \in Runs : \/ failLive(r, i)
                    \/ \E out \in LiveOutputs(runs[r]) : completeLive(r, i, out)

InitLive ==
    /\ wf \in NoRewindWorkflows
    /\ storyMax \in 1..DefaultMaxRetries
    /\ runs = [r \in {1} |-> NewRun(wf)]
    /\ ret = NoRet
    /\ cronJobs = << >>
    /\ ensure = NoEnsure

NextLive ==
    \/ \E a \in Agents : claimStep(a)
    \/ \E i \in StepIdx : reportLive(i)
    \/ \E r \in Runs : cancelRun(r)

\* Every agent keeps polling, and an agent that claimed a step reports on it.
FairLive ==
    /\ \A a \in Agents : SF_vars(claimStep(a))
    /\ \A i \in 1..4 : SF_vars(i \in StepIdx /\ reportLive(i))

SpecLive == InitLive /\ [][NextLive]_vars /\ FairLive

\* The run has left running.
Settled(r) == runs[r].status \in {"completed", "blocked", "canceled"}

\* A completion that inserts the stories of a valid STORIES_JSON block.
InsertsLive ==
    \E r \in Runs, i \in StepIdx : \E out \in LiveOutputs(runs[r]) :
        /\ ~RunIsCanceled(runs[r])
        /\ StoriesValid(runs[r], out.stories)
        /\ out.stories.ids # << >>
        /\ completeLive(r, i, out)

\* C32 (as stated): in a workflow without on_fail.retry_step, under fair
\* claiming and reporting, every run eventually leaves running for good,
\* whatever the agents report.
C32_RunEventuallySettles ==
    <>[](\A r \in Runs : Settled(r))

\* C32 (amended): in a workflow without on_fail.retry_step, under fair
\* claiming and reporting, every run to which stories are added only finitely
\* often eventually leaves running for good: it is completed, blocked or
\* canceled.
C32_RunSettlesUnlessStoriesKeepComing ==
    []<><<InsertsLive>>_vars \/ <>[](\A r \in Runs : Settled(r))

\* A story of the loop failed, was retried and failed again: its retries are
\* used up, the loop step is failed and the run is blocked.
C32_Witness ==
    \E r \in Runs :
        /\ \A j \in StepIdx : wf[j].retryStep = NoVal
        /\ ret.op = "fail" /\ ret.result = "ok" /\ ret.step = LoopStep
        /\ runs[r].status = "blocked"
        /\ runs[r].steps[LoopStep].status = "failed"
        /\ \E k \in 1..Len(runs[r].stories) :
              /\ runs[r].stories[k].status = "failed"
              /\ runs[r].stories[k].retryCount = DefaultMaxRetries

\* ----------------------------------------------------------- cron gateway
\* src/installer/gateway-api.ts: the installer asks the gateway's cron tool
\* for its jobs and adds the orchestrator job when none carries its name.
OrchestratorName == "antfarm-orchestrator"
OtherName == "nightly-report"

\* A job as the gateway stores and lists it.
NewJob(jobs, name) == [id |-> Len(jobs) + 1, name |-> name]

\* The jobs field of a reply: absent, or present with a list.
NoJobs == [has |-> FALSE, jobs |-> << >>]
SomeJobs(jobs) == [has |-> TRUE, jobs |-> jobs]

\* What happens to a list request: fetch throws, the gateway answers with an
\* error status, the answer says ok: false, or it carries the jobs the gateway
\* holds, as { result: { jobs } } or as { jobs }.
ListReplies(jobs) ==
    {[thrown |-> TRUE, httpOk |-> FALSE, ok |-> FALSE, nested |-> NoJobs, flat |-> NoJobs],
     [thrown |-> FALSE, httpOk |-> FALSE, ok |-> FALSE, nested |-> NoJobs, flat |-> NoJobs],
     [thrown |-> FALSE, httpOk |-> TRUE, ok |-> FALSE, nested |-> NoJobs, flat |-> NoJobs],
     [thrown |-> FALSE, httpOk |-> TRUE, ok |-> TRUE, nested |-> SomeJobs(jobs), flat |-> NoJobs],
     [thrown |-> FALSE, httpOk |-> TRUE, ok |-> TRUE, nested |-> NoJobs, flat |-> SomeJobs(jobs)]}

\* listCronJobs: result.result?.jobs ?? result.jobs ?? [].
listCronJobs(reply) ==
    IF reply.thrown \/ ~reply.httpOk \/ ~reply.ok
    THEN [ok |-> FALSE, jobs |-> << >>]
    ELSE [ok |-> TRUE,
          jobs |-> IF reply.nested.has THEN reply.nested.jobs
                   ELSE IF reply.flat.has THEN reply.flat.jobs
                   ELSE << >>]

\* What happens to an add request: fetch throws before the request reaches the
\* gateway, or after the gateway stored the job; the gateway answers with an
\* error status or with ok: false and stores nothing; or the job is stored.
AddReplies ==
    {[thrown |-> TRUE, httpOk |-> FALSE, ok |-> FALSE, stored |-> FALSE],
     [thrown |-> TRUE, httpOk |-> FALSE, ok |-> FALSE, stored |-> TRUE],
     [thrown |-> FALSE, httpOk |-> FALSE, ok |-> FALSE, stored |-> FALSE],
     [thrown |-> FALSE, httpOk |-> TRUE, ok |-> FALSE, stored |-> FALSE],
     [thrown |-> FALSE, httpOk |-> TRUE, ok |-> TRUE, stored |-> TRUE]}

createCronJob(reply) == [ok |-> ~reply.thrown /\ reply.httpOk /\ reply.ok]

\* Variant: only the first listed job is compared with the name.
ExistingFirstOnly(jobs) == jobs # << >> /\ jobs[1].name = OrchestratorName

\* listResult.jobs?.find((j) => j.name === "antfarm-orchestrator")
Existing(jobs) == \E n \in 1..Len(jobs) : jobs[n].name = OrchestratorName

\* The call in progress returns: what it returned is recorded with whether its
\* list call succeeded and how many add requests it sent.
Return(ok, created, listOk, adds) ==
    [ensure EXCEPT !.pc = "idle",
                   !.adds = 0,
                   !.returned = Append(@, [ok |-> ok, created |-> created,
                                           listOk |-> listOk, adds |-> adds])]

\* ensureOrchestratorCron up to its second await: the list call, and the
\* returns that follow it.
ensureList(reply) ==
    LET listResult == listCronJobs(reply) IN
    /\ ensure.pc = "idle"
    /\ Len(ensure.returned) < MaxCalls
    /\ ensure' = IF ~listResult.ok THEN Return(FALSE, FALSE, FALSE, 0)
                 ELSE IF Existing(listResult.jobs) THEN Return(TRUE, FALSE, TRUE, 0)
                 ELSE [ensure EXCEPT !.pc = "creating"]
    /\ UNCHANGED <<wf, storyMax, runs, ret, cronJobs>>

\* ensureOrchestratorCron from the add request to its return.
ensureCreate(reply) ==
    LET createResult == createCronJob(reply) IN
    /\ ensure.pc = "creating"
    /\ cronJobs' = IF reply.stored
                   THEN Append(cronJobs, NewJob(cronJobs, OrchestratorName))
                   ELSE cronJobs
    /\ ensure' = Return(createResult.ok, createResult.ok, TRUE, ensure.adds + 1)
    /\ UNCHANGED <<wf, storyMax, runs, ret>>

\* Another client of the gateway adds a job of its own.
otherClientAdds ==
    /\ Len(SelectSeq(cronJobs, LAMBDA j : j.name = OtherName)) < MaxOtherJobs
    /\ cronJobs' = Append(cronJobs, NewJob(cronJobs, OtherName))
    /\ UNCHANGED <<wf, storyMax, runs, ret, ensure>>

InitCron ==
    /\ wf = FeatureDev
    /\ storyMax = DefaultMaxRetries
    /\ runs = << >>
    /\ ret = NoRet
    /\ cronJobs = << >>
    /\ ensure = NoEnsure

NextCron ==
    \/ \E reply \in ListReplies(cronJobs) : ensureList(reply)
    \/ \E reply \in AddReplies : ensureCreate(reply)
    \/ otherClientAdds

SpecCron == InitCron /\ [][NextCron]_vars

\* The jobs the gateway holds under the orchestrator's name.
OrchestratorJobs == SelectSeq(cronJobs, LAMBDA j : j.name = OrchestratorName)

\* C33: ensureOrchestratorCron sends an add request only while the gateway
\* holds no job named antfarm-orchestrator, so that sequential calls leave at
\* most one such job; a call whose list call fails returns ok = false,
\* created = false and sends no add request; and once a call has created the
\* job, every later call whose list call succeeds returns ok = true,
\* created = false.
C33_EnsureCreatesAtMostOnce ==
    [][LET old == ensure.returned
           new == ensure'.returned
           rec == new[Len(new)]
       IN  /\ (ensure.pc = "creating" /\ ensure'.pc = "idle") => ~Existing(cronJobs)
           /\ Len(OrchestratorJobs') <= 1
           /\ Len(new) = Len(old) + 1 =>
                /\ ~rec.listOk =>
                      (~rec.ok /\ ~rec.created /\ rec.adds = 0 /\ cronJobs' = cronJobs)
                /\ (rec.listOk /\ Existing(cronJobs)) =>
                      (rec.ok /\ ~rec.created /\ rec.adds = 0 /\ cronJobs' = cronJobs)
                /\ rec.created => (rec.ok /\ rec.adds = 1 /\ Len(OrchestratorJobs') = 1)
                /\ \A n \in 1..Len(old) :
                      (old[n].created /\ rec.listOk) => (rec.ok /\ ~rec.created)]_vars

\* A first call failed at the list call, the second created the job among the
\* jobs of another client, and the third found it.
C33_Witness ==
    /\ Len(ensure.returned) = 3
    /\ ~ensure.returned[1].ok /\ ~ensure.returned[1].listOk
    /\ ensure.returned[2].ok /\ ensure.returned[2].created
    /\ ensure.returned[3].ok /\ ~ensure.returned[3].created
    /\ cronJobs # << >> /\ cronJobs[1].name = OtherName
    /\ Len(OrchestratorJobs) = 1

====
